---- MODULE Spec2Model ----
(***************************************************************************)
(* Model of RippleRenderer (src/lib/core/ripple/ripple-renderer.ts): the   *)
(* mousedown / mouseup / mouseleave state machine, the fade-in and         *)
(* fade-out timers, and the listener bindings on the trigger element.      *)
(*                                                                         *)
(* Time is in milliseconds.  A pending setTimeout is a record with the     *)
(* time left until it is due; time advances by Advance and never passes a  *)
(* due timer.                                                              *)
(*                                                                         *)
(* pointer is the state of the mouse as the actions Press, Release and     *)
(* Leave keep it: "up", or the element the button was pressed on and is    *)
(* still held over.  dialog is the state of an MdDialogContainer           *)
(* (class MdDialogContainer).                                              *)
(***************************************************************************)
EXTENDS Integers, Sequences, FiniteSets, TLC

VARIABLES isMousedown, activeRipples, rippleDisabled, rippleConfig,
          triggerElement, listeners, ripples, timers, thrown, hist, ev,
          pointer, dialog

vars == <<isMousedown, activeRipples, rippleDisabled, rippleConfig,
          triggerElement, listeners, ripples, timers, thrown, hist, ev,
          pointer, dialog>>

----------------------------------------------------------------------------
(* Bounds of the model *)

\* at most this many ripple elements are ever created
MaxRipples == 2
\* external fadeOutRipple calls are made only while fewer timers are pending
MaxTimers == 2

(* Program constants *)

RIPPLE_SPEED_PX_PER_SECOND == 170
RIPPLE_FADE_OUT_DURATION == 600

----------------------------------------------------------------------------
(* Inputs *)

\* JavaScript null / undefined for an element reference
NULL == "null"
\* the host (container) element and one other element of the page
Surfaces == {"host", "other"}

\* getBoundingClientRect() of the container, in viewport coordinates
ContainerRect ==
  [left |-> 10, top |-> 20, right |-> 112, bottom |-> 156,
   width |-> 102, height |-> 136]

\* viewport positions of the pointer: the container's bottom-right corner
Points == { [x |-> 112, y |-> 156] }
\* getViewportScrollPosition()
Scrolls == { [left |-> 0, top |-> 0], [left |-> 30, top |-> 400] }

\* An optional property of a RippleConfig is <<>> when absent, <<v>> when set.
Configs ==
  { [color |-> <<>>, centered |-> <<>>, radius |-> <<>>, speedFactor |-> <<>>],
    [color |-> <<"red">>, centered |-> <<TRUE>>, radius |-> <<34>>, speedFactor |-> <<2>>] }

\* amounts by which time may advance while no timer is due earlier
TimeSteps == {300}

(* Inputs of the geometry of one ripple (SpecGeo).  The rectangles have    *)
(* sides 6k by 8k and the points lie on the grid of half sides, chosen so  *)
(* that every distance to a furthest corner is a whole number.             *)

GeoRects ==
  { ContainerRect,
    [left |-> 0, top |-> 0, right |-> 204, bottom |-> 272,
     width |-> 204, height |-> 272] }

\* grid positions <<a, b>>: the point a half widths right of the left edge
\* and b half heights below the top edge; 1 is the middle, 0 and 2 the edges
GeoSteps ==
  {<<1, 1>>}
    \cup ({0, 2} \X {0, 2})
    \cup ({-1, 3} \X {-1, 3})
    \cup ({-3, 5} \X {0, 2})

GeoPoint(rect, g) ==
  [x |-> rect.left + g[1] * (rect.width \div 2),
   y |-> rect.top + g[2] * (rect.height \div 2)]

GeoConfigs ==
  [color : {<<>>, <<"red">>},
   centered : {<<>>, <<TRUE>>, <<FALSE>>},
   radius : {<<>>, <<0>>, <<34>>, <<-34>>},
   speedFactor : {<<>>, <<0>>, <<1>>, <<2>>, <<4>>}]

----------------------------------------------------------------------------
(* JavaScript helpers *)

Abs(n) == IF n < 0 THEN -n ELSE n
Max(a, b) == IF a >= b THEN a ELSE b

\* Math.sqrt on the perfect squares the inputs produce
Sqrt(n) == CHOOSE r \in 0..n : r * r = n

\* opt || dflt for an optional number: absent and 0 are falsy
OrNum(opt, dflt) == IF opt # <<>> /\ opt[1] # 0 THEN opt[1] ELSE dflt
\* truthiness of an optional boolean
Truthy(opt) == opt # <<>> /\ opt[1] = TRUE

\* distanceToFurthestCorner as it would be with the nearer edge on each axis
distanceToNearestCorner(x, y, rect) ==
  LET distX == -Max(-Abs(x - rect.left), -Abs(x - rect.right))
      distY == -Max(-Abs(y - rect.top), -Abs(y - rect.bottom))
  IN  Sqrt(distX * distX + distY * distY)

\* distanceToFurthestCorner(x, y, rect)
distanceToFurthestCorner(x, y, rect) ==
  LET distX == Max(Abs(x - rect.left), Abs(x - rect.right))
      distY == Max(Abs(y - rect.top), Abs(y - rect.bottom))
  IN  Sqrt(distX * distX + distY * distY)

----------------------------------------------------------------------------
(* The renderer's state as one record, so that handlers compose *)

St == [isMousedown |-> isMousedown, activeRipples |-> activeRipples,
       rippleDisabled |-> rippleDisabled, rippleConfig |-> rippleConfig,
       triggerElement |-> triggerElement, listeners |-> listeners,
       ripples |-> ripples, timers |-> timers, thrown |-> thrown,
       hist |-> hist]

Commit(s) ==
  /\ isMousedown' = s.isMousedown
  /\ activeRipples' = s.activeRipples
  /\ rippleDisabled' = s.rippleDisabled
  /\ rippleConfig' = s.rippleConfig
  /\ triggerElement' = s.triggerElement
  /\ listeners' = s.listeners
  /\ ripples' = s.ripples
  /\ timers' = s.timers
  /\ thrown' = s.thrown
  /\ hist' = s.hist

\* runTimeoutOutsideZone(fn, delay): setTimeout; a negative delay is due at once
runTimeoutOutsideZone(s, kind, r, delay) ==
  [s EXCEPT !.timers = Append(@, [kind |-> kind, ripple |-> r,
                                  left |-> Max(delay, 0)])]

\* fadeOutRipple as it would be if the removal waited for the ripple's own
\* transition duration
fadeOutRippleOwnDuration(s, r) ==
  LET s1 == [s EXCEPT !.ripples[r].opacity = 0,
                      !.hist[r].outAge = IF @ < 0 THEN 0 ELSE @]
  IN  runTimeoutOutsideZone(s1, "remove", r, s.ripples[r].transitionDuration)

\* fadeOutRipple(ripple)
fadeOutRipple(s, r) ==
  LET s1 == [s EXCEPT !.ripples[r].transitionDuration = RIPPLE_FADE_OUT_DURATION,
                      !.ripples[r].opacity = 0,
                      !.hist[r].outAge = IF @ < 0 THEN 0 ELSE @]
  IN  runTimeoutOutsideZone(s1, "remove", r, RIPPLE_FADE_OUT_DURATION)

\* fadeInRipple as it would be if config.speedFactor were not looked at
fadeInRippleUnitSpeed(s, pageX, pageY, config, scroll, containerRect) ==
  LET px == IF Truthy(config.centered)
              THEN containerRect.left + containerRect.width \div 2
              ELSE pageX - scroll.left
      py == IF Truthy(config.centered)
              THEN containerRect.top + containerRect.height \div 2
              ELSE pageY - scroll.top
      radius == OrNum(config.radius, distanceToFurthestCorner(px, py, containerRect))
      \* duration * 1000, exact for the inputs of this model
      durationMs == (radius * 1000) \div RIPPLE_SPEED_PX_PER_SECOND
      offsetX == px - containerRect.left
      offsetY == py - containerRect.top
      ripple == [left |-> offsetX - radius, top |-> offsetY - radius,
                 height |-> radius * 2, width |-> radius * 2,
                 backgroundColor |-> config.color,
                 transitionDuration |-> durationMs,
                 opacity |-> 1, attached |-> TRUE]
      r == Len(s.ripples) + 1
      s1 == [s EXCEPT !.ripples = Append(@, ripple),
                      !.hist = Append(@, [rel |-> FALSE, rep |-> FALSE,
                                          act |-> FALSE, outAge |-> -1])]
  IN  runTimeoutOutsideZone(s1, "fadeIn", r, durationMs)

\* fadeInRipple as it would be if config.centered were not looked at
fadeInRippleAtPointer(s, pageX, pageY, config, scroll, containerRect) ==
  LET px == pageX - scroll.left
      py == pageY - scroll.top
      radius == OrNum(config.radius, distanceToFurthestCorner(px, py, containerRect))
      \* duration * 1000, exact for the inputs of this model
      durationMs == (radius * 1000) \div (RIPPLE_SPEED_PX_PER_SECOND * OrNum(config.speedFactor, 1))
      offsetX == px - containerRect.left
      offsetY == py - containerRect.top
      ripple == [left |-> offsetX - radius, top |-> offsetY - radius,
                 height |-> radius * 2, width |-> radius * 2,
                 backgroundColor |-> config.color,
                 transitionDuration |-> durationMs,
                 opacity |-> 1, attached |-> TRUE]
      r == Len(s.ripples) + 1
      s1 == [s EXCEPT !.ripples = Append(@, ripple),
                      !.hist = Append(@, [rel |-> FALSE, rep |-> FALSE,
                                          act |-> FALSE, outAge |-> -1])]
  IN  runTimeoutOutsideZone(s1, "fadeIn", r, durationMs)

\* fadeInRipple(pageX, pageY, config); scroll is what the ruler reports and
\* containerRect what the container's getBoundingClientRect() returns
fadeInRipple(s, pageX, pageY, config, scroll, containerRect) ==
  LET px == IF Truthy(config.centered)
              THEN containerRect.left + containerRect.width \div 2
              ELSE pageX - scroll.left
      py == IF Truthy(config.centered)
              THEN containerRect.top + containerRect.height \div 2
              ELSE pageY - scroll.top
      radius == OrNum(config.radius, distanceToFurthestCorner(px, py, containerRect))
      \* duration * 1000, exact for the inputs of this model
      durationMs == (radius * 1000) \div (RIPPLE_SPEED_PX_PER_SECOND * OrNum(config.speedFactor, 1))
      offsetX == px - containerRect.left
      offsetY == py - containerRect.top
      ripple == [left |-> offsetX - radius, top |-> offsetY - radius,
                 height |-> radius * 2, width |-> radius * 2,
                 backgroundColor |-> config.color,
                 transitionDuration |-> durationMs,
                 opacity |-> 1, attached |-> TRUE]
      r == Len(s.ripples) + 1
      s1 == [s EXCEPT !.ripples = Append(@, ripple),
                      !.hist = Append(@, [rel |-> FALSE, rep |-> FALSE,
                                          act |-> FALSE, outAge |-> -1])]
  IN  runTimeoutOutsideZone(s1, "fadeIn", r, durationMs)

----------------------------------------------------------------------------
(* Event listeners *)

\* this._triggerEvents: event type -> the handler bound in the constructor
triggerEvents ==
  << [type |-> "mousedown", fn |-> "onMousedown"],
     [type |-> "mouseup", fn |-> "onMouseup"],
     [type |-> "mouseleave", fn |-> "onMouseLeave"] >>

RECURSIVE Without(_, _)
\* the listener list without the entry e
Without(list, e) ==
  IF list = <<>> THEN <<>>
  ELSE IF Head(list) = e THEN Without(Tail(list), e)
  ELSE <<Head(list)>> \o Without(Tail(list), e)

Has(list, e) == \E i \in 1..Len(list) : list[i] = e

\* element.addEventListener(type, fn): a listener already in the list is not
\* added again
addEventListener(ls, el, e) ==
  IF Has(ls[el], e) THEN ls ELSE [ls EXCEPT ![el] = Append(@, e)]

\* element.removeEventListener(type, fn)
removeEventListener(ls, el, e) == [ls EXCEPT ![el] = Without(@, e)]

RECURSIVE RemoveAll(_, _, _)
RemoveAll(ls, el, es) ==
  IF es = <<>> THEN ls
  ELSE RemoveAll(removeEventListener(ls, el, Head(es)), el, Tail(es))

RECURSIVE AddAll(_, _, _)
AddAll(ls, el, es) ==
  IF es = <<>> THEN ls
  ELSE AddAll(addEventListener(ls, el, Head(es)), el, Tail(es))

\* setTriggerElement as it would be without removing the old listeners
setTriggerElementNoRemove(s, element) ==
  [s EXCEPT !.listeners = IF element # NULL
                            THEN AddAll(s.listeners, element, triggerEvents)
                            ELSE s.listeners,
            !.triggerElement = element]

\* setTriggerElement as it would be if it registered the new listeners first
\* and removed the old ones afterwards
setTriggerElementAddFirst(s, element) ==
  LET l1 == IF element # NULL
              THEN AddAll(s.listeners, element, triggerEvents)
              ELSE s.listeners
      l2 == IF s.triggerElement # NULL
              THEN RemoveAll(l1, s.triggerElement, triggerEvents)
              ELSE l1
  IN  [s EXCEPT !.listeners = l2, !.triggerElement = element]

\* setTriggerElement(element)
setTriggerElement(s, element) ==
  LET l1 == IF s.triggerElement # NULL
              THEN RemoveAll(s.listeners, s.triggerElement, triggerEvents)
              ELSE s.listeners
      l2 == IF element # NULL THEN AddAll(l1, element, triggerEvents) ELSE l1
  IN  [s EXCEPT !.listeners = l2, !.triggerElement = element]

----------------------------------------------------------------------------
(* Handlers and timer callbacks *)

\* does ripple r still wait for its fade-in timer
FadeInPending(s, r) ==
  \E i \in 1..Len(s.timers) : s.timers[i].kind = "fadeIn" /\ s.timers[i].ripple = r

\* onMousedown as it would be if it used the config of construction time
onMousedownFirstConfig(s, event) ==
  IF s.rippleDisabled THEN s
  ELSE LET s1 == [s EXCEPT !.isMousedown = TRUE,
                           !.hist = [r \in 1..Len(s.hist) |->
                                       IF s.hist[r].rel /\ FadeInPending(s, r)
                                         THEN [s.hist[r] EXCEPT !.rep = TRUE]
                                         ELSE s.hist[r]]]
       IN  fadeInRipple(s1, event.pageX, event.pageY,
                        [color |-> <<>>, centered |-> <<>>, radius |-> <<>>,
                         speedFactor |-> <<>>],
                        event.scroll, event.rect)

\* onMousedown as it would be without the rippleDisabled guard
onMousedownNoGuard(s, event) ==
  fadeInRipple([s EXCEPT !.isMousedown = TRUE],
               event.pageX, event.pageY, s.rippleConfig, event.scroll,
               event.rect)

\* onMousedown(event)
onMousedown(s, event) ==
  IF s.rippleDisabled THEN s
  ELSE LET s1 == [s EXCEPT !.isMousedown = TRUE,
                           \* history: a press after a release, fade-in pending
                           !.hist = [r \in 1..Len(s.hist) |->
                                       IF s.hist[r].rel /\ FadeInPending(s, r)
                                         THEN [s.hist[r] EXCEPT !.rep = TRUE]
                                         ELSE s.hist[r]]]
       IN  fadeInRipple(s1, event.pageX, event.pageY, s.rippleConfig,
                        event.scroll, event.rect)

RECURSIVE FadeOutEach(_, _)
\* this._activeRipples.forEach(ripple => this.fadeOutRipple(ripple))
FadeOutEach(s, rs) ==
  IF rs = <<>> THEN s ELSE FadeOutEach(fadeOutRipple(s, Head(rs)), Tail(rs))

\* onMouseup as it would be with the rippleDisabled guard of onMousedown
onMouseupDisabledGuard(s) ==
  IF s.rippleDisabled THEN s
  ELSE [FadeOutEach([s EXCEPT !.isMousedown = FALSE], s.activeRipples)
          EXCEPT !.activeRipples = <<>>]

\* onMouseup as it would be without emptying the list
onMouseupKeepActive(s) ==
  FadeOutEach([s EXCEPT !.isMousedown = FALSE], s.activeRipples)

\* onMouseup()
onMouseup(s) ==
  LET s1 == [s EXCEPT !.isMousedown = FALSE,
                      \* history: a release while the fade-in is pending
                      !.hist = [r \in 1..Len(s.hist) |->
                                  IF FadeInPending(s, r)
                                    THEN [s.hist[r] EXCEPT !.rel = TRUE]
                                    ELSE s.hist[r]]]
      s2 == FadeOutEach(s1, s1.activeRipples)
  IN  [s2 EXCEPT !.activeRipples = <<>>]

\* onMouseLeave as it would be if it did nothing
onMouseLeaveIgnore(s) == s

\* onMouseLeave()
onMouseLeave(s) == IF s.isMousedown THEN onMouseup(s) ELSE s

\* the fade-in callback as it would be if it left the ripple alone when the
\* mouse is up
FadeInDoneLeaveWhenUp(s, r) ==
  IF s.isMousedown
    THEN [s EXCEPT !.activeRipples = Append(@, r), !.hist[r].act = TRUE]
    ELSE s

\* the fade-in callback as it would be if it did not look at _isMousedown
FadeInDoneAlwaysActive(s, r) ==
  [s EXCEPT !.activeRipples = Append(@, r), !.hist[r].act = TRUE]

FadeInDoneAlwaysOut(s, r) == fadeOutRipple(s, r)

\* the callback fadeInRipple schedules
FadeInDone(s, r) ==
  IF s.isMousedown
    THEN [s EXCEPT !.activeRipples = Append(@, r), !.hist[r].act = TRUE]
    ELSE fadeOutRipple(s, r)

\* the callback fadeOutRipple schedules: ripple.parentNode.removeChild(ripple)
\* throws a TypeError when parentNode is null
RemoveDone(s, r) ==
  IF s.ripples[r].attached
    THEN [s EXCEPT !.ripples[r].attached = FALSE]
    ELSE [s EXCEPT !.thrown = TRUE]

CallHandler(s, fn, event) ==
  CASE fn = "onMousedown" -> onMousedown(s, event)
    [] fn = "onMouseup" -> onMouseup(s)
    [] fn = "onMouseLeave" -> onMouseLeave(s)

RECURSIVE DispatchTo(_, _, _, _)
\* the listeners of the event's type run in the order of the listener list
DispatchTo(s, list, type, event) ==
  IF list = <<>> THEN s
  ELSE IF Head(list).type = type
    THEN DispatchTo(CallHandler(s, Head(list).fn, event), Tail(list), type, event)
    ELSE DispatchTo(s, Tail(list), type, event)

\* the browser dispatches an event of the given type on element el
Dispatch(s, el, type, event) == DispatchTo(s, s.listeners[el], type, event)

\* the timer queue without its i-th entry
DropTimer(ts, i) == SubSeq(ts, 1, i - 1) \o SubSeq(ts, i + 1, Len(ts))

----------------------------------------------------------------------------
(* Derived notions *)

RippleIds == 1..Len(ripples)
ActiveSet == { activeRipples[i] : i \in 1..Len(activeRipples) }
PendingFadeIn(r) == FadeInPending(St, r)
RemoveTimers(r) ==
  { i \in 1..Len(timers) : timers[i].kind = "remove" /\ timers[i].ripple = r }

\* the lifecycle phase of ripple r, read off its element and its timers
Phase(r) ==
  IF ~ripples[r].attached THEN "removed"
  ELSE IF ripples[r].opacity = 0 THEN "fading-out"
  ELSE IF PendingFadeIn(r) THEN "fading-in"
  ELSE "active"

\* is a listener for events of this type installed on element el
Bound(el, type) == \E i \in 1..Len(listeners[el]) : listeners[el][i].type = type

NoEvent == [pageX |-> 0, pageY |-> 0, scroll |-> [left |-> 0, top |-> 0]]

----------------------------------------------------------------------------
(* Initial state: the field initialisers, then the constructor *)

Fields ==
  [isMousedown |-> FALSE, activeRipples |-> <<>>, rippleDisabled |-> FALSE,
   rippleConfig |-> [color |-> <<>>, centered |-> <<>>, radius |-> <<>>,
                     speedFactor |-> <<>>],
   triggerElement |-> NULL, listeners |-> [el \in Surfaces |-> <<>>],
   ripples |-> <<>>, timers |-> <<>>, thrown |-> FALSE, hist |-> <<>>]

\* MdDialogContainer as constructed, inside its document: nothing attached
\* to its portal host (attached is <<>>, or <<p>> for the attached portal p),
\* no subscriber of onMicrotaskEmpty, no element remembered; activeElement
\* is document.activeElement, error what the last call threw
DialogFields ==
  [attached |-> <<>>, subscriptions |-> <<>>,
   elementFocusedBeforeDialogWasOpened |-> NULL,
   activeElement |-> "opener", error |-> "none", destroyed |-> FALSE]

\* constructor: the host element is the container and the first trigger
Constructed == setTriggerElement(Fields, "host")

Init ==
  /\ isMousedown = Constructed.isMousedown
  /\ activeRipples = Constructed.activeRipples
  /\ rippleDisabled = Constructed.rippleDisabled
  /\ rippleConfig = Constructed.rippleConfig
  /\ triggerElement = Constructed.triggerElement
  /\ listeners = Constructed.listeners
  /\ ripples = Constructed.ripples
  /\ timers = Constructed.timers
  /\ thrown = Constructed.thrown
  /\ hist = Constructed.hist
  /\ ev = [op |-> "new", el |-> "-"]
  /\ pointer = "up"
  /\ dialog = DialogFields

\* A renderer as constructed, together with the arguments of one call of
\* distanceToFurthestCorner or fadeInRipple, kept in ev: the viewport
\* point, the container's rectangle, the scroll position and the config.
InitGeo ==
  /\ isMousedown = Constructed.isMousedown
  /\ activeRipples = Constructed.activeRipples
  /\ rippleDisabled = Constructed.rippleDisabled
  /\ rippleConfig = Constructed.rippleConfig
  /\ triggerElement = Constructed.triggerElement
  /\ listeners = Constructed.listeners
  /\ ripples = Constructed.ripples
  /\ timers = Constructed.timers
  /\ thrown = Constructed.thrown
  /\ hist = Constructed.hist
  /\ \E rect \in GeoRects, g \in GeoSteps, sc \in Scrolls, config \in GeoConfigs :
       ev = [op |-> "input", el |-> "-",
             x |-> GeoPoint(rect, g).x, y |-> GeoPoint(rect, g).y,
             rect |-> rect, scroll |-> sc, config |-> config, result |-> 0]
  /\ pointer = "up"
  /\ dialog = DialogFields

----------------------------------------------------------------------------
(* Actions *)

\* a mousedown at viewport point p, the page scrolled by sc, on element el
MousedownOn(els) ==
  \E el \in els, p \in Points, sc \in Scrolls :
    LET event == [pageX |-> p.x + sc.left, pageY |-> p.y + sc.top,
                  scroll |-> sc, rect |-> ContainerRect]
        s2 == Dispatch(St, el, "mousedown", event)
    IN  /\ Len(s2.ripples) <= MaxRipples
        /\ Commit(s2)
        /\ ev' = [op |-> "mousedown", el |-> el]
        /\ UNCHANGED <<pointer, dialog>>

MouseupOn(els) ==
  \E el \in els :
    /\ Commit(Dispatch(St, el, "mouseup", NoEvent))
    /\ ev' = [op |-> "mouseup", el |-> el]
    /\ UNCHANGED <<pointer, dialog>>

MouseleaveOn(els) ==
  \E el \in els :
    /\ Commit(Dispatch(St, el, "mouseleave", NoEvent))
    /\ ev' = [op |-> "mouseleave", el |-> el]
    /\ UNCHANGED <<pointer, dialog>>

\* pointer events on any element of the page
Mousedown == MousedownOn(Surfaces)
Mouseup == MouseupOn(Surfaces)
Mouseleave == MouseleaveOn(Surfaces)

\* pointer events on the host element only
HostMousedown == MousedownOn({"host"})
HostMouseup == MouseupOn({"host"})
HostMouseleave == MouseleaveOn({"host"})

(* The mouse as a physical device: a button that is pressed on an element  *)
(* is later released on it or leaves it, and the element's listeners get   *)
(* the event whether or not the renderer is bound to the element.          *)

\* the button goes down at viewport point p on element el
Press ==
  \E el \in Surfaces, p \in Points, sc \in Scrolls :
    LET event == [pageX |-> p.x + sc.left, pageY |-> p.y + sc.top,
                  scroll |-> sc, rect |-> ContainerRect]
        s2 == Dispatch(St, el, "mousedown", event)
    IN  /\ pointer = "up"
        /\ Len(s2.ripples) <= MaxRipples
        /\ Commit(s2)
        /\ pointer' = el
        /\ ev' = [op |-> "mousedown", el |-> el]
        /\ UNCHANGED dialog

\* the button goes up on the element it went down on
Release ==
  /\ pointer # "up"
  /\ Commit(Dispatch(St, pointer, "mouseup", NoEvent))
  /\ pointer' = "up"
  /\ ev' = [op |-> "mouseup", el |-> pointer]
  /\ UNCHANGED dialog

\* the pointer leaves the element the button went down on
Leave ==
  /\ pointer # "up"
  /\ Commit(Dispatch(St, pointer, "mouseleave", NoEvent))
  /\ pointer' = "up"
  /\ ev' = [op |-> "mouseleave", el |-> pointer]
  /\ UNCHANGED dialog

\* a due fade-in timer runs its callback
FadeInTimer ==
  \E i \in 1..Len(timers) :
    /\ timers[i].left = 0
    /\ timers[i].kind = "fadeIn"
    /\ Commit(FadeInDone([St EXCEPT !.timers = DropTimer(@, i)], timers[i].ripple))
    /\ ev' = [op |-> "fadeInDone", el |-> "-"]
    /\ UNCHANGED <<pointer, dialog>>

\* a due removal timer runs its callback
RemoveTimer ==
  \E i \in 1..Len(timers) :
    /\ timers[i].left = 0
    /\ timers[i].kind = "remove"
    /\ Commit(RemoveDone([St EXCEPT !.timers = DropTimer(@, i)], timers[i].ripple))
    /\ ev' = [op |-> "removeDone", el |-> "-"]
    /\ UNCHANGED <<pointer, dialog>>

MinLeft == CHOOSE m \in { timers[i].left : i \in 1..Len(timers) } :
             \A i \in 1..Len(timers) : m <= timers[i].left

\* time passes: by a step, or up to the next due timer, never beyond it
Advance ==
  /\ timers # <<>>
  /\ \E d \in TimeSteps \cup {MinLeft} :
       /\ d > 0
       /\ d <= MinLeft
       /\ timers' = [i \in 1..Len(timers) |-> [timers[i] EXCEPT !.left = @ - d]]
       \* history: the time since fadeOutRipple was first called on a ripple
       \* that is still in the container
       /\ hist' = [r \in 1..Len(hist) |->
                     IF hist[r].outAge >= 0 /\ ripples[r].attached
                       THEN [hist[r] EXCEPT !.outAge = @ + d]
                       ELSE hist[r]]
       /\ ev' = [op |-> "advance", el |-> "-"]
  /\ UNCHANGED <<isMousedown, activeRipples, rippleDisabled, rippleConfig,
                 triggerElement, listeners, ripples, thrown, pointer, dialog>>

SetTriggerElement ==
  \E element \in Surfaces \cup {NULL} :
    /\ Commit(setTriggerElement(St, element))
    /\ ev' = [op |-> "setTriggerElement",
              el |-> IF element = triggerElement THEN "same" ELSE "-"]
    /\ UNCHANGED <<pointer, dialog>>

\* the owner assigns rippleDisabled
SetDisabled ==
  \E b \in BOOLEAN :
    /\ b # rippleDisabled
    /\ Commit([St EXCEPT !.rippleDisabled = b])
    /\ ev' = [op |-> "setDisabled", el |-> "-"]
    /\ UNCHANGED <<pointer, dialog>>

\* the owner assigns rippleConfig
SetConfig ==
  \E c \in Configs :
    /\ c # rippleConfig
    /\ Commit([St EXCEPT !.rippleConfig = c])
    /\ ev' = [op |-> "setConfig", el |-> "-"]
    /\ UNCHANGED <<pointer, dialog>>

\* a caller outside the renderer calls fadeOutRipple on a ripple element
CallFadeOutRipple ==
  \E r \in RippleIds :
    /\ Len(timers) < MaxTimers
    /\ Commit(fadeOutRipple(St, r))
    /\ ev' = [op |-> "fadeOutRipple", el |-> "-"]
    /\ UNCHANGED <<pointer, dialog>>

\* the renderer bound to its host, driven by pointer events on the host, by
\* its timers and by its owner's settings
Next ==
  \/ HostMousedown
  \/ HostMouseup
  \/ HostMouseleave
  \/ FadeInTimer
  \/ RemoveTimer
  \/ Advance
  \/ SetDisabled
  \/ SetConfig

Spec == Init /\ [][Next]_vars

\* the renderer with its default settings, rebound by setTriggerElement,
\* with pointer events on any element of the page
NextBind ==
  \/ Mousedown
  \/ Mouseup
  \/ Mouseleave
  \/ FadeInTimer
  \/ RemoveTimer
  \/ Advance
  \/ SetTriggerElement

SpecBind == Init /\ [][NextBind]_vars

\* the renderer as constructed, driven by pointer events and timers, with
\* fadeOutRipple also called from outside
NextExt ==
  \/ HostMousedown
  \/ HostMouseup
  \/ FadeInTimer
  \/ RemoveTimer
  \/ Advance
  \/ CallFadeOutRipple

SpecExt == Init /\ [][NextExt]_vars

\* the renderer driven by a physical mouse and its timers, its owner
\* rebinding and disabling it: every timeout set is eventually run and
\* every press is eventually followed by a release or a leave
NextLive ==
  \/ Press
  \/ Release
  \/ Leave
  \/ FadeInTimer
  \/ RemoveTimer
  \/ Advance
  \/ SetTriggerElement
  \/ SetDisabled

SpecLive ==
  /\ Init
  /\ [][NextLive]_vars
  /\ WF_vars(FadeInTimer)
  /\ WF_vars(RemoveTimer)
  /\ WF_vars(Advance)
  /\ WF_vars(Release \/ Leave)

----------------------------------------------------------------------------
(* The geometry of one ripple: the functions applied to the drawn inputs *)

\* distanceToFurthestCorner(x, y, rect) on the drawn point and rectangle
DistanceToFurthestCorner ==
  /\ ev.op = "input"
  /\ ev' = [ev EXCEPT !.op = "distanceToFurthestCorner",
                      !.result = distanceToFurthestCorner(ev.x, ev.y, ev.rect)]
  /\ UNCHANGED <<isMousedown, activeRipples, rippleDisabled, rippleConfig,
                 triggerElement, listeners, ripples, timers, thrown, hist,
                 pointer, dialog>>

\* fadeInRipple(pageX, pageY, config) on the drawn inputs, the page
\* coordinates being the viewport point plus the scroll position
FadeInRipple ==
  /\ ev.op = "input"
  /\ Commit(fadeInRipple(St, ev.x + ev.scroll.left, ev.y + ev.scroll.top,
                         ev.config, ev.scroll, ev.rect))
  /\ ev' = [ev EXCEPT !.op = "fadeInRipple"]
  /\ UNCHANGED <<pointer, dialog>>

NextGeo == DistanceToFurthestCorner \/ FadeInRipple

SpecGeo == InitGeo /\ [][NextGeo]_vars

----------------------------------------------------------------------------
(* The dialog container (class MdDialogContainer) *)

\* at most this many subscribers of onMicrotaskEmpty wait at a time
MaxSubscriptions == 2

\* the portals offered as dialog content
Portals == {"p1", "p2"}
\* the focusable elements of the page outside the dialog
Elements == {"opener", "field"}

\* this._portalHost.hasAttached()
hasAttached(d) == d.attached # <<>>

\* this._portalHost.attachComponentPortal(portal) / attachTemplatePortal(portal)
portalHostAttach(d, kind, portal) ==
  [d EXCEPT !.attached = <<[kind |-> kind, portal |-> portal]>>]

\* _trapFocus(): subscribe once to onMicrotaskEmpty
trapFocus(d) == [d EXCEPT !.subscriptions = Append(@, "trapFocus")]

\* attachComponentPortal as it would be without the hasAttached test
attachComponentPortalUnguarded(d, portal) ==
  trapFocus(portalHostAttach([d EXCEPT !.error = "none"], "component", portal))

\* attachComponentPortal(portal)
attachComponentPortal(d, portal) ==
  IF hasAttached(d)
    THEN [d EXCEPT !.error = "MdDialogContentAlreadyAttachedError"]
    ELSE trapFocus(portalHostAttach([d EXCEPT !.error = "none"],
                                    "component", portal))

\* attachTemplatePortal(portal)
attachTemplatePortal(d, portal) ==
  IF hasAttached(d)
    THEN [d EXCEPT !.error = "MdDialogContentAlreadyAttachedError"]
    ELSE trapFocus(portalHostAttach([d EXCEPT !.error = "none"],
                                    "template", portal))

\* ngOnDestroy()
ngOnDestroy(d) ==
  LET d1 == [d EXCEPT !.destroyed = TRUE, !.error = "none"]
  IN  IF d.elementFocusedBeforeDialogWasOpened # NULL
        THEN [d1 EXCEPT !.subscriptions = Append(@, "restoreFocus")]
        ELSE d1

\* one subscriber's callback: the one of _trapFocus remembers the active
\* element and moves the focus into the dialog, the one of ngOnDestroy
\* gives the focus back to the remembered element
RunSubscriber(d, fn) ==
  IF fn = "trapFocus"
    THEN [d EXCEPT !.elementFocusedBeforeDialogWasOpened = d.activeElement,
                   !.activeElement = "dialog"]
    ELSE [d EXCEPT !.activeElement = d.elementFocusedBeforeDialogWasOpened]

RECURSIVE RunSubscribers(_, _)
RunSubscribers(d, fns) ==
  IF fns = <<>> THEN d
  ELSE RunSubscribers(RunSubscriber(d, Head(fns)), Tail(fns))

DialogUnchanged ==
  UNCHANGED <<isMousedown, activeRipples, rippleDisabled, rippleConfig,
              triggerElement, listeners, ripples, timers, thrown, hist,
              pointer>>

AttachComponentPortal ==
  \E portal \in Portals :
    /\ ~dialog.destroyed
    /\ Len(dialog.subscriptions) < MaxSubscriptions
    /\ dialog' = attachComponentPortal(dialog, portal)
    /\ ev' = [op |-> "attachComponentPortal", el |-> portal]
    /\ DialogUnchanged

AttachTemplatePortal ==
  \E portal \in Portals :
    /\ ~dialog.destroyed
    /\ Len(dialog.subscriptions) < MaxSubscriptions
    /\ dialog' = attachTemplatePortal(dialog, portal)
    /\ ev' = [op |-> "attachTemplatePortal", el |-> portal]
    /\ DialogUnchanged

\* the portal host's content is detached
DetachPortal ==
  /\ ~dialog.destroyed
  /\ hasAttached(dialog)
  /\ dialog' = [dialog EXCEPT !.attached = <<>>, !.error = "none"]
  /\ ev' = [op |-> "detach", el |-> "-"]
  /\ DialogUnchanged

\* the zone's microtask queue becomes empty: onMicrotaskEmpty emits, every
\* first() subscriber runs once and is unsubscribed
MicrotaskEmpty ==
  /\ dialog.subscriptions # <<>>
  /\ dialog' = RunSubscribers([dialog EXCEPT !.subscriptions = <<>>,
                                             !.error = "none"],
                              dialog.subscriptions)
  /\ ev' = [op |-> "microtaskEmpty", el |-> "-"]
  /\ DialogUnchanged

\* the user moves the focus to an element outside the dialog, or the browser
\* reports no active element
FocusElement ==
  \E e \in Elements \cup {NULL} :
    /\ e # dialog.activeElement
    /\ dialog' = [dialog EXCEPT !.activeElement = e]
    /\ ev' = [op |-> "focus", el |-> e]
    /\ DialogUnchanged

NgOnDestroy ==
  /\ ~dialog.destroyed
  /\ Len(dialog.subscriptions) < MaxSubscriptions
  /\ dialog' = ngOnDestroy(dialog)
  /\ ev' = [op |-> "ngOnDestroy", el |-> "-"]
  /\ DialogUnchanged

NextDialog ==
  \/ AttachComponentPortal
  \/ AttachTemplatePortal
  \/ DetachPortal
  \/ MicrotaskEmpty
  \/ FocusElement
  \/ NgOnDestroy

SpecDialog == Init /\ [][NextDialog]_vars

----------------------------------------------------------------------------
(* Properties *)

\* what a call of onMouseup does to the state it is called in
ReleaseEffect ==
  /\ isMousedown' = FALSE
  /\ activeRipples' = <<>>
  /\ timers' = timers \o
       [i \in 1..Len(activeRipples) |->
          [kind |-> "remove", ripple |-> activeRipples[i],
           left |-> RIPPLE_FADE_OUT_DURATION]]
  /\ ripples' = [r \in 1..Len(ripples) |->
                   IF r \in ActiveSet
                     THEN [ripples[r] EXCEPT !.opacity = 0,
                             !.transitionDuration = RIPPLE_FADE_OUT_DURATION]
                     ELSE ripples[r]]

C2_ReleaseFadesAllActive ==
  [][(ev'.op = "mouseup" /\ Bound(ev'.el, "mouseup")) => ReleaseEffect]_vars

\* one release, handled while disabled, has started the fade-out of two
\* ripples that were both active, the older first
C2_Witness ==
  /\ ev.op = "mouseup"
  /\ rippleDisabled
  /\ activeRipples = <<>>
  /\ Len(ripples) = 2
  /\ hist[1].act /\ hist[2].act
  /\ Len(timers) = 2
  /\ timers[1] = [kind |-> "remove", ripple |-> 1, left |-> RIPPLE_FADE_OUT_DURATION]
  /\ timers[2] = [kind |-> "remove", ripple |-> 2, left |-> RIPPLE_FADE_OUT_DURATION]

\* C3: a ripple whose fade-in completes while press-state is true joins the
\* active collection, and a ripple of the active collection stays in the
\* container at full opacity until a mouseup, or a mouseleave while pressed.
C3_NoEarlyFadeOut ==
  /\ [](\A r \in ActiveSet : ripples[r].attached /\ ripples[r].opacity = 1)
  /\ [][(ev'.op = "fadeInDone" /\ isMousedown) =>
           \E r \in RippleIds :
             /\ PendingFadeIn(r)
             /\ activeRipples' = Append(activeRipples, r)
             /\ ripples' = ripples]_vars
  /\ [][\A a \in ActiveSet :
           (a \notin ActiveSet' \/ ripples'[a] # ripples[a]) =>
             \/ ev'.op = "mouseup"
             \/ ev'.op = "mouseleave" /\ isMousedown]_vars

\* time has passed, and timers have run, since a ripple became active, and it
\* is still shown
C3_Witness ==
  /\ ev.op = "removeDone"
  /\ \E r \in ActiveSet : ripples[r].attached /\ ripples[r].opacity = 1

\* C4: while rippleDisabled is set a mousedown creates no ripple, schedules
\* no timer and leaves press-state and the active collection as they are.
C4_DisabledPressIsNoOp ==
  [][(ev'.op = "mousedown" /\ rippleDisabled) =>
       UNCHANGED <<ripples, timers, isMousedown, activeRipples>>]_vars

\* a mousedown has reached the handler of a disabled renderer
C4_Witness ==
  /\ ev.op = "mousedown"
  /\ Bound(ev.el, "mousedown")
  /\ rippleDisabled
  /\ ~isMousedown

\* C5: a mouseleave that reaches the renderer while press-state is true does
\* what a mouseup does; while press-state is false it changes nothing.
C5_LeaveIsReleaseOrNoOp ==
  [][(ev'.op = "mouseleave" /\ Bound(ev'.el, "mouseleave")) =>
       IF isMousedown
         THEN ReleaseEffect
         ELSE UNCHANGED <<isMousedown, activeRipples, ripples, timers>>]_vars

\* a mouseleave while pressed has started the fade-out of an active ripple
C5_Witness ==
  /\ ev.op = "mouseleave"
  /\ ~isMousedown
  /\ activeRipples = <<>>
  /\ \E r \in RippleIds :
       /\ hist[r].act
       /\ \E i \in RemoveTimers(r) : timers[i].left = RIPPLE_FADE_OUT_DURATION

\* the listeners of setTriggerElement, each once, in the order of the map
OneSetOfBindings(el) == listeners[el] = triggerEvents

\* C6: the handlers are bound on the current trigger element only, one
\* listener per event type, and on no element when the trigger is null; an
\* event on any other element changes nothing of the renderer.
C6_BoundOnTriggerOnly ==
  /\ [](\A el \in Surfaces :
          IF el = triggerElement THEN OneSetOfBindings(el)
                                 ELSE listeners[el] = <<>>)
  /\ [][(ev'.op \in {"mousedown", "mouseup", "mouseleave"}
           /\ ev'.el # triggerElement) =>
          UNCHANGED <<isMousedown, activeRipples, rippleDisabled, rippleConfig,
                      triggerElement, listeners, ripples, timers, thrown,
                      hist>>]_vars

\* after setTriggerElement(null) a mousedown on the host, which was bound
\* at construction, has been dispatched while the renderer is enabled
C6_Witness ==
  /\ triggerElement = NULL
  /\ ev = [op |-> "mousedown", el |-> "host"]
  /\ ~rippleDisabled
  /\ listeners["host"] = <<>>

\* C7: setTriggerElement called with the element that is already the
\* trigger leaves the bindings as they are, and a mousedown on the trigger
\* of an enabled renderer creates exactly one ripple and one timer.
C7_SetTriggerIdempotent ==
  /\ [][(ev'.op = "setTriggerElement" /\ ev'.el = "same") =>
          listeners' = listeners]_vars
  /\ [][(ev'.op = "mousedown" /\ ev'.el = triggerElement /\ ~rippleDisabled) =>
          /\ Len(ripples') = Len(ripples) + 1
          /\ Len(timers') = Len(timers) + 1]_vars

\* setTriggerElement has been called again with the current trigger, an
\* element other than the host
C7_Witness ==
  /\ ev = [op |-> "setTriggerElement", el |-> "same"]
  /\ triggerElement = "other"
  /\ OneSetOfBindings("other")

\* C8 as stated: fadeOutRipple on a ripple that is already fading out or
\* removed schedules no second removal timer and no error is ever raised.
C8_FadeOutGuarded ==
  /\ ~thrown
  /\ \A r \in RippleIds : Cardinality(RemoveTimers(r)) <= 1

\* C9: a ripple on which fadeOutRipple was called is in the container until
\* RIPPLE_FADE_OUT_DURATION has passed since the call and is removed then,
\* whatever its radius and its speedFactor.
C9_RemovedAfterFadeOutDuration ==
  \A r \in RippleIds :
    hist[r].outAge >= 0 =>
      IF ripples[r].attached
        THEN /\ hist[r].outAge <= RIPPLE_FADE_OUT_DURATION
             /\ \E i \in RemoveTimers(r) :
                  timers[i].left = RIPPLE_FADE_OUT_DURATION - hist[r].outAge
        ELSE hist[r].outAge = RIPPLE_FADE_OUT_DURATION

\* two ripples of different radius and speedFactor have both been removed
\* after their fade-out
C9_Witness ==
  /\ Len(ripples) = 2
  /\ ripples[1].width # ripples[2].width
  /\ ripples[1].backgroundColor # ripples[2].backgroundColor
  /\ \A r \in RippleIds :
       ~ripples[r].attached /\ hist[r].outAge = RIPPLE_FADE_OUT_DURATION

\* C10 as stated: the collection holds exactly the ripples that are fading
\* in or active.
C10_HoldsFadingInAndActive ==
  ActiveSet = { r \in RippleIds : Phase(r) \in {"fading-in", "active"} }

\* C10 amended: the collection holds exactly the ripples whose fade-in has
\* completed and whose fade-out has not started, each once; a ripple leaves
\* it only when a release starts its fade-out.
C10_HoldsActiveOnly ==
  /\ [](/\ ActiveSet = { r \in RippleIds : Phase(r) = "active" }
        /\ Len(activeRipples) = Cardinality(ActiveSet))
  /\ [][\A a \in ActiveSet :
          a \notin ActiveSet' =>
            /\ Phase(a)' = "fading-out"
            /\ ev'.op \in {"mouseup", "mouseleave"}]_vars
  /\ [][(ev'.op \in {"mouseup", "mouseleave"}) =>
          \A r \in RippleIds :
            Phase(r) \in {"fading-in", "fading-out"} =>
              /\ ripples'[r] = ripples[r]
              /\ RemoveTimers(r)' = RemoveTimers(r)]_vars

\* one ripple is active and in the collection while another is fading in
\* and is not
C10_Witness ==
  \E a, b \in RippleIds :
    /\ Phase(a) = "active" /\ a \in ActiveSet
    /\ Phase(b) = "fading-in" /\ b \notin ActiveSet

\* C11: a removal timer that fires for a ripple with no parent does nothing
\* and raises no error: no firing of a removal timer raises an error.
C11_RemovalNeverThrows ==
  [][ev'.op = "removeDone" => thrown' = thrown]_vars

\* the four corners of a rectangle
Corners(rect) ==
  { <<rect.left, rect.top>>, <<rect.right, rect.top>>,
    <<rect.left, rect.bottom>>, <<rect.right, rect.bottom>> }

\* the squared distance between the point (x, y) and the corner c
SquaredDistance(x, y, c) == (x - c[1]) * (x - c[1]) + (y - c[2]) * (y - c[2])

\* C12: for every point, inside or outside the rectangle, the result r of
\* distanceToFurthestCorner satisfies
\* r^2 = max(|x-left|, |x-right|)^2 + max(|y-top|, |y-bottom|)^2, the squared
\* distance to each corner is at most r^2, and it is r^2 for some corner.
C12_FurthestCorner ==
  ev.op = "distanceToFurthestCorner" =>
    LET r2 == ev.result * ev.result
        mx == Max(Abs(ev.x - ev.rect.left), Abs(ev.x - ev.rect.right))
        my == Max(Abs(ev.y - ev.rect.top), Abs(ev.y - ev.rect.bottom))
    IN  /\ ev.result >= 0
        /\ r2 = mx * mx + my * my
        /\ \A c \in Corners(ev.rect) : SquaredDistance(ev.x, ev.y, c) <= r2
        /\ \E c \in Corners(ev.rect) : SquaredDistance(ev.x, ev.y, c) = r2

\* the function has been applied to a point left of the rectangle whose
\* horizontal and vertical distances differ in kind
C12_Witness ==
  /\ ev.op = "distanceToFurthestCorner"
  /\ ev.x < ev.rect.left
  /\ ev.y = ev.rect.bottom
  /\ ev.result > 0

\* the viewport point fadeInRipple grows the ripple from, for the drawn inputs
Origin ==
  IF ev.config.centered = <<TRUE>>
    THEN [x |-> ev.rect.left + ev.rect.width \div 2,
          y |-> ev.rect.top + ev.rect.height \div 2]
    ELSE [x |-> ev.x, y |-> ev.y]

\* C13: the effective radius of fadeInRipple, and with it the ripple's
\* diameter and offset, is config.radius when that is provided and positive
\* and the distance to the furthest corner otherwise (absent, zero, negative).
C13_EffectiveRadius ==
  ev.op = "fadeInRipple" =>
    LET radius == IF ev.config.radius # <<>> /\ ev.config.radius[1] > 0
                    THEN ev.config.radius[1]
                    ELSE distanceToFurthestCorner(Origin.x, Origin.y, ev.rect)
    IN  /\ ripples[1].width = 2 * radius
        /\ ripples[1].height = 2 * radius
        /\ ripples[1].left = Origin.x - ev.rect.left - radius
        /\ ripples[1].top = Origin.y - ev.rect.top - radius

\* C14: with config.centered true the ripple grows from the container's
\* centre: its offset within the container is (width/2 - radius,
\* height/2 - radius), whatever the supplied coordinates and the scroll
\* position are.
C14_CenteredOrigin ==
  (ev.op = "fadeInRipple" /\ ev.config.centered = <<TRUE>>) =>
    LET radius == ripples[1].width \div 2
    IN  /\ ripples[1].width = 2 * radius
        /\ ripples[1].height = 2 * radius
        /\ ripples[1].left = ev.rect.width \div 2 - radius
        /\ ripples[1].top = ev.rect.height \div 2 - radius
        /\ ev.config.radius = <<>> =>
             radius = distanceToFurthestCorner(
                        ev.rect.left + ev.rect.width \div 2,
                        ev.rect.top + ev.rect.height \div 2, ev.rect)

\* a centred ripple was made for a point outside the container on a
\* scrolled page
C14_Witness ==
  /\ ev.op = "fadeInRipple"
  /\ ev.config.centered = <<TRUE>>
  /\ ev.config.radius = <<>>
  /\ ev.x < ev.rect.left
  /\ ev.scroll.left > 0
  /\ Len(ripples) = 1

\* C15: for every radius and every speedFactor s > 0 the fade-in duration,
\* which is also the delay of the fade-in completion callback, satisfies
\* duration * s * 170 = radius (here in milliseconds: duration * s * 170 =
\* radius * 1000), an absent speedFactor counting as s = 1.  Doubling s
\* therefore halves the duration.  setTimeout runs a negative delay at once.
C15_DurationTimesSpeed ==
  ev.op = "fadeInRipple" =>
    LET s == IF ev.config.speedFactor = <<>> THEN 1 ELSE ev.config.speedFactor[1]
        radius == ripples[1].width \div 2
        durationMs == ripples[1].transitionDuration
    IN  s > 0 =>
          /\ ripples[1].width = 2 * radius
          /\ durationMs * s * 170 = radius * 1000
          /\ timers = << [kind |-> "fadeIn", ripple |-> 1,
                          left |-> IF durationMs < 0 THEN 0 ELSE durationMs] >>

\* a ripple of radius 85 was made at speedFactor 4: its fade-in lasts 125 ms
C15_Witness ==
  /\ ev.op = "fadeInRipple"
  /\ ev.config.speedFactor = <<4>>
  /\ Len(ripples) = 1
  /\ ripples[1].width = 170
  /\ ripples[1].transitionDuration = 125
  /\ timers[1].left = 125

\* the geometry of a ripple element, which fadeInRipple sets once
Geometry(ripple) ==
  <<ripple.left, ripple.top, ripple.width, ripple.height, ripple.backgroundColor>>

\* what a press at viewport point p makes of the config c on ContainerRect
MadeFrom(ripple, c, p) ==
  LET px == IF c.centered = <<TRUE>>
              THEN ContainerRect.left + ContainerRect.width \div 2 ELSE p.x
      py == IF c.centered = <<TRUE>>
              THEN ContainerRect.top + ContainerRect.height \div 2 ELSE p.y
      radius == IF c.radius = <<>>
                  THEN distanceToFurthestCorner(px, py, ContainerRect)
                  ELSE c.radius[1]
      s == IF c.speedFactor = <<>> THEN 1 ELSE c.speedFactor[1]
  IN  /\ ripple.backgroundColor = c.color
      /\ ripple.width = 2 * radius
      /\ ripple.height = 2 * radius
      /\ ripple.left = px - ContainerRect.left - radius
      /\ ripple.top = py - ContainerRect.top - radius
      /\ ripple.transitionDuration * s * RIPPLE_SPEED_PX_PER_SECOND = radius * 1000

\* C16: the config is read only when a ripple is created.  Assigning the
\* config changes no ripple and no pending timer; no step changes the
\* geometry of an existing ripple; and a press makes its ripple, and the
\* delay of its fade-in completion, from the config current at that press,
\* leaving the pending timers of the earlier ripples as they are.
C16_ConfigReadAtCreation ==
  [][ /\ ev'.op = "setConfig" =>
           /\ rippleConfig' # rippleConfig
           /\ ripples' = ripples
           /\ timers' = timers
           /\ activeRipples' = activeRipples
      /\ \A r \in RippleIds :
           /\ r <= Len(ripples')
           /\ Geometry(ripples'[r]) = Geometry(ripples[r])
      /\ (ev'.op = "mousedown" /\ Len(ripples') # Len(ripples)) =>
           LET n == Len(ripples')
           IN  /\ n = Len(ripples) + 1
               /\ rippleConfig' = rippleConfig
               /\ \E p \in Points : MadeFrom(ripples'[n], rippleConfig, p)
               /\ timers' = Append(timers,
                                   [kind |-> "fadeIn", ripple |-> n,
                                    left |-> ripples'[n].transitionDuration])
    ]_vars

\* a press has made a second ripple from a config assigned while the first
\* ripple, made from the earlier config, is still fading in
C16_Witness ==
  /\ ev.op = "mousedown"
  /\ Len(ripples) = 2
  /\ PendingFadeIn(1)
  /\ PendingFadeIn(2)
  /\ ripples[1].backgroundColor # ripples[2].backgroundColor
  /\ ripples[1].width # ripples[2].width
  /\ ripples[2].backgroundColor = rippleConfig.color

\* C18: while the active collection is non-empty the press-state is true;
\* while the press-state is false the active collection is empty and every
\* ripple still in the container has a pending fade-in completion or a
\* pending removal.
C18_PressStateInvariant ==
  /\ activeRipples # <<>> => isMousedown
  /\ ~isMousedown =>
       /\ activeRipples = <<>>
       /\ \A r \in RippleIds :
            ripples[r].attached => (PendingFadeIn(r) \/ RemoveTimers(r) # {})

\* after a release, one ripple that was active is fading out and another is
\* still fading in
C18_Witness ==
  /\ ~isMousedown
  /\ ev.op = "mouseup"
  /\ \E a, b \in RippleIds :
       /\ ripples[a].attached /\ hist[a].act /\ RemoveTimers(a) # {}
       /\ ripples[b].attached /\ PendingFadeIn(b)

\* C19: driven only by the bound handlers and the timer callbacks, every
\* ripple is added to the active collection at most once (it is added only
\* if it never was active, and is never listed twice), has its fade-out
\* started at most once (a removal is scheduled only for a ripple whose
\* fade-out never started, and one at a time), and has its removal callback
\* run at most once (the callback runs on an attached ripple, detaches it
\* and leaves no removal pending; a detached ripple stays detached).
C19_AtMostOnce ==
  [][ \A r \in RippleIds :
        /\ (r \in ActiveSet' /\ r \notin ActiveSet) => ~hist[r].act
        /\ Cardinality(ActiveSet') = Len(activeRipples')
        /\ Cardinality(RemoveTimers(r)') > Cardinality(RemoveTimers(r)) =>
             /\ hist[r].outAge < 0
             /\ ripples[r].opacity = 1
             /\ Cardinality(RemoveTimers(r)') = 1
        /\ Cardinality(RemoveTimers(r)') < Cardinality(RemoveTimers(r)) =>
             /\ ev'.op = "removeDone"
             /\ ripples[r].attached
             /\ ~ripples'[r].attached
             /\ RemoveTimers(r)' = {}
        /\ ~ripples[r].attached => ~ripples'[r].attached
        /\ ~thrown'
    ]_vars

\* two ripples have both been active and both been removed
C19_Witness ==
  /\ Len(ripples) = 2
  /\ \A r \in RippleIds : hist[r].act /\ ~ripples[r].attached
  /\ timers = <<>>

\* C17: every ripple that is created is eventually removed and none stays
\* in the active collection forever, provided every timer fires and every
\* press is followed by a release or a leave.  Once the button is up and no
\* timer is pending nothing more happens to a ripple unless the mouse is
\* pressed again, so by then every ripple is removed and none is active.
C17_RemovedAtRest ==
  (pointer = "up" /\ timers = <<>>) =>
    /\ activeRipples = <<>>
    /\ \A r \in RippleIds : ~ripples[r].attached

\* C20: attaching a component or template portal to a dialog container
\* whose portal host has content fails with the content-already-attached
\* error, leaves the attached content as it is, attaches nothing and
\* schedules no focus-trap request; on an empty host the attach succeeds,
\* attaches the portal and schedules exactly one focus-trap request.
C20_AttachOnceOrFail ==
  [][ ev'.op \in {"attachComponentPortal", "attachTemplatePortal"} =>
        IF dialog.attached # <<>>
          THEN /\ dialog'.error = "MdDialogContentAlreadyAttachedError"
               /\ dialog' = [dialog EXCEPT !.error = dialog'.error]
          ELSE /\ dialog'.error = "none"
               /\ dialog'.attached =
                    << [kind |-> IF ev'.op = "attachComponentPortal"
                                   THEN "component" ELSE "template",
                        portal |-> ev'.el] >>
               /\ dialog'.subscriptions = Append(dialog.subscriptions, "trapFocus")
               /\ dialog' = [dialog EXCEPT !.error = dialog'.error,
                                           !.attached = dialog'.attached,
                                           !.subscriptions = dialog'.subscriptions]
    ]_vars

\* attaching a template portal has failed on a container that holds a
\* component portal and has trapped the focus
C20_Witness ==
  /\ ev.op = "attachTemplatePortal"
  /\ dialog.error = "MdDialogContentAlreadyAttachedError"
  /\ dialog.attached = << [kind |-> "component", portal |-> "p1"] >>
  /\ ev.el = "p2"
  /\ dialog.subscriptions = <<>>
  /\ dialog.activeElement = "dialog"

====
